---- MODULE Spec2Model ----
\* Model of the knowledge-base vector store (app/services/schema_store.py) and of
\* the text-to-SQL query pipeline (app/services/text_to_sql.py).
EXTENDS Integers, Sequences, FiniteSets, TLC

VARIABLES
    store,      \* the fields of PersistentEnhancedSchemaVectorStore
    disk,       \* the durable artifacts under storage_path
    durable,    \* ghost: the artifacts as the last completed save (or clear) left them
    service,    \* how TextToSQLService.__init__ ended, or "down" after a crash
    faults,     \* ghost: how many crashes and I/O errors have happened so far
    last,       \* ghost: the outcome of the last operation
    tasks       \* the background tasks that are running, in the order they started

vars == <<store, disk, durable, service, faults, last, tasks>>

\* ---------------------------------------------------------------- bounds

MaxTables == 1          \* longest "tables" array of an uploaded metadata document
MaxParagraphs == 1      \* most paragraphs of an uploaded business-logic text
MaxFaults == 2          \* most crashes and I/O errors in a run
MaxBuilds == 2          \* most searches in a row that introspect the database

\* ---------------------------------------------------------------- values

None == "None"
Absent == [state |-> "absent"]
Corrupt == [state |-> "corrupt"]

TableNames == {"users", "orders"}
ParagraphIds == {"rule", "note"}

\* a part of an uploaded text that is whitespace only
Blank == "blank"

\* paragraphs of more than 1000 characters, and the sentences between their
\* full stops: s.strip() for s in paragraph.split('.')
LongParagraphIds == {"policy", "manual"}

Sentences(p) == CASE p = "policy" -> <<"s790", "s795", "s5">>
                  [] p = "manual" -> <<"s600", "s600">>
                  [] OTHER -> <<>>

SentenceIds == {"s790", "s795", "s600", "s5"}

\* len(sentence)
SentenceLen(x) == CASE x = "s790" -> 790
                    [] x = "s795" -> 795
                    [] x = "s600" -> 600
                    [] x = "s5" -> 5
                    [] OTHER -> 0

\* len(paragraph) of each paragraph text the model uploads; a long paragraph is
\* its sentences, each followed by ". " but for the last one's "."
ParLen(p) == CASE p = "rule" -> 60
               [] p = "note" -> 30
               [] p = "policy" -> 1595
               [] p = "manual" -> 1203
               [] OTHER -> 0

\* datetime.utcnow(): seconds and microseconds; no datetime is <<>>
NoTime == <<>>
T1 == <<1, 0>>
T2 == <<1, 5>>
Times == {T1, T2}

\* datetime.isoformat(): the microseconds are left out when they are 0
IsoFormat(t) == IF t[2] = 0 THEN <<t[1]>> ELSE t

\* datetime.fromisoformat()
FromIsoFormat(x) == IF Len(x) = 1 THEN <<x[1], 0>> ELSE x

\* JSON null
Null == <<>>

\* t.isoformat() if t else None
IsoOrNull(t) == IF t = NoTime THEN Null ELSE IsoFormat(t)

MinChunkLen == 50
MaxParagraphLen == 1000
MaxChunkLen == 800

RECURSIVE SeqSum(_)
SeqSum(s) == IF s = <<>> THEN 0 ELSE Head(s) + SeqSum(Tail(s))

RECURSIVE SelectSeq2(_, _)
\* the subsequence of s whose elements are in the set keep
SelectSeq2(s, keep) ==
    IF s = <<>> THEN <<>>
    ELSE IF Head(s) \in keep THEN <<Head(s)>> \o SelectSeq2(Tail(s), keep)
         ELSE SelectSeq2(Tail(s), keep)

Range(s) == {s[i] : i \in 1..Len(s)}

Min2(a, b) == IF a < b THEN a ELSE b

\* f"business_logic_{i}"
ChunkId(i) == CASE i = 0 -> "business_logic_0"
                [] i = 1 -> "business_logic_1"
                [] i = 2 -> "business_logic_2"
                [] i = 3 -> "business_logic_3"
                [] OTHER -> "business_logic_n"

\* the enriched text of a table: "Table: <name>\nColumns: ..."
CreateEnrichedText(t) == <<"Table:", t>>

\* f"Business Logic: {business_text}"
EnhancedBusinessText(chunk) == <<"Business Logic:">> \o chunk

\* model.encode: a text and its embedding determine each other here
Encode(texts) == [i \in 1..Len(texts) |-> <<"emb">> \o texts[i]]

NoIndex == [built |-> FALSE, rows |-> <<>>]

\* faiss.IndexFlatL2(dim) followed by index.add(embeddings)
NewIndex(embeddings) == [built |-> TRUE, rows |-> embeddings]

\* ---------------------------------------------------------------- store

\* the fields __init__ sets before _load_from_disk, and _reset_state
ResetState ==
    [index |-> NoIndex,
     schema_texts |-> <<>>,
     table_names |-> <<>>,
     table_metadata |-> {},
     business_logic_texts |-> <<>>,
     business_logic_metadata |-> <<>>,
     combined_texts |-> <<>>,
     text_types |-> <<>>,
     text_identifiers |-> <<>>,
     is_metadata_loaded |-> FALSE,
     is_business_logic_loaded |-> FALSE,
     metadata_upload_time |-> NoTime,
     business_logic_upload_time |-> NoTime]

\* zip(a, b) stops at the shorter sequence
ZipLen(a, b) == Min2(Len(a), Len(b))

\* _rebuild_combined_index: the three arrays are rebuilt from the two slices; with
\* no text at all it returns before touching the index; model.encode may raise
\* (encode_ok = FALSE), and then the arrays are already replaced and the index is not
RebuildCombinedIndex(s, encode_ok) ==
    LET ns == ZipLen(s.table_names, s.schema_texts)
        nb == ZipLen(s.business_logic_texts, s.business_logic_metadata)
        texts == [i \in 1..ns |-> s.schema_texts[i]]
                 \o [i \in 1..nb |-> EnhancedBusinessText(s.business_logic_texts[i])]
        cleared == [s EXCEPT !.combined_texts = texts,
                      !.text_types = [i \in 1..ns |-> "schema"]
                                     \o [i \in 1..nb |-> "business_logic"],
                      !.text_identifiers = [i \in 1..ns |-> s.table_names[i]]
                                     \o [i \in 1..nb |-> s.business_logic_metadata[i]]]
    IN  IF texts = <<>> THEN [store |-> cleared, raised |-> FALSE]
        ELSE IF ~encode_ok THEN [store |-> cleared, raised |-> TRUE]
        ELSE [store |-> [cleared EXCEPT !.index = NewIndex(Encode(texts))],
              raised |-> FALSE]

\* _rebuild_combined_index as another thread sees it, in three steps. First the
\* three fields are bound to new empty lists
ClearCombined(s) ==
    [s EXCEPT !.combined_texts = <<>>, !.text_types = <<>>, !.text_identifiers = <<>>]

\* then the two loops append to the lists the fields are bound to by then
FillCombined(s) ==
    LET ns == ZipLen(s.table_names, s.schema_texts)
        nb == ZipLen(s.business_logic_texts, s.business_logic_metadata)
    IN  [s EXCEPT !.combined_texts =
                      @ \o [i \in 1..ns |-> s.schema_texts[i]]
                        \o [i \in 1..nb |-> EnhancedBusinessText(s.business_logic_texts[i])],
                  !.text_types =
                      @ \o [i \in 1..ns |-> "schema"] \o [i \in 1..nb |-> "business_logic"],
                  !.text_identifiers =
                      @ \o [i \in 1..ns |-> s.table_names[i]]
                        \o [i \in 1..nb |-> s.business_logic_metadata[i]]]

\* and, unless there is no text, the texts are encoded and the index is replaced
IndexCombined(s) ==
    IF s.combined_texts = <<>> THEN s
    ELSE [s EXCEPT !.index = NewIndex(Encode(s.combined_texts))]

\* ---------------------------------------------------------------- ingest

Malformed == "<no table_name>"

\* an uploaded metadata document: whether it has the 'metadata' and 'tables' keys,
\* and its table entries, each a table of the catalogue or an entry whose
\* processing raises (no schema.table_name)
RECURSIVE SeqsUpTo(_, _)
SeqsUpTo(S, n) ==
    IF n = 0 THEN {<<>>}
    ELSE LET shorter == SeqsUpTo(S, n - 1)
         IN  shorter \cup {Append(q, x) : q \in shorter, x \in S}

\* an ingest that sets the flag before it looks at the document
FlagsBeforeValidation(s, doc, now, encode_ok) ==
    [store |-> [s EXCEPT !.is_metadata_loaded = TRUE],
     saved |-> FALSE, success |-> FALSE, processed |-> 0, total |-> 0,
     request |-> [has_keys |-> doc.has_keys, entries |-> Len(doc.tables),
                  valid |-> Len(SelectSeq2(doc.tables, TableNames))]]

\* process_metadata. The result carries the store it leaves, whether it reached
\* _save_to_disk, the dictionary it returns, and what the request was: whether the
\* document had its keys, its entries and how many of them passed
ProcessMetadata(s, doc, now, encode_ok) ==
    LET table_names == SelectSeq2(doc.tables, TableNames)
        enriched_texts == [i \in 1..Len(table_names) |-> CreateEnrichedText(table_names[i])]
        registered == [s EXCEPT !.table_metadata = @ \cup Range(table_names)]
        swapped == [registered EXCEPT !.schema_texts = enriched_texts,
                                      !.table_names = table_names,
                                      !.is_metadata_loaded = TRUE,
                                      !.metadata_upload_time = now]
        rebuilt == RebuildCombinedIndex(swapped, encode_ok)
        request == [has_keys |-> doc.has_keys, entries |-> Len(doc.tables),
                    valid |-> Len(table_names)]
    IN  IF ~doc.has_keys THEN
            [store |-> s, saved |-> FALSE, success |-> FALSE,
             processed |-> 0, total |-> 0, request |-> request]
        ELSE IF enriched_texts = <<>> THEN
            [store |-> registered, saved |-> FALSE, success |-> FALSE,
             processed |-> 0, total |-> 0, request |-> request]
        ELSE IF rebuilt.raised THEN
            [store |-> rebuilt.store, saved |-> FALSE, success |-> FALSE,
             processed |-> 0, total |-> 0, request |-> request]
        ELSE
            [store |-> rebuilt.store, saved |-> TRUE, success |-> TRUE,
             processed |-> Len(table_names), total |-> Len(doc.tables),
             request |-> request]

\* process_metadata up to its call of _rebuild_combined_index: the store it leaves
\* and whether it raised
SwapMetadata(s, doc, now) ==
    LET table_names == SelectSeq2(doc.tables, TableNames)
    IN  IF ~doc.has_keys \/ table_names = <<>> THEN [store |-> s, raised |-> TRUE]
        ELSE [store |-> [s EXCEPT !.table_metadata = @ \cup Range(table_names),
                                  !.schema_texts =
                                      [i \in 1..Len(table_names) |->
                                          CreateEnrichedText(table_names[i])],
                                  !.table_names = table_names,
                                  !.is_metadata_loaded = TRUE,
                                  !.metadata_upload_time = now],
              raised |-> FALSE]

\* an uploaded business-logic text: its parts between blank lines, in order
BusinessLogicContents == SeqsUpTo(ParagraphIds, MaxParagraphs)

\* [p.strip() for p in content.split('\n\n') if p.strip()]
Paragraphs(content) == SelectSeq2(content, ParagraphIds \cup LongParagraphIds)

\* len(" ".join(content.split()))
JoinedLen(content) ==
    LET paragraphs == Paragraphs(content)
    IN  IF paragraphs = <<>> THEN 0
        ELSE SeqSum([i \in 1..Len(paragraphs) |-> ParLen(paragraphs[i])])
             + (Len(paragraphs) - 1)

\* len(current_chunk): every sentence in it is followed by ". "
CurrentLen(current_chunk) ==
    SeqSum([i \in 1..Len(current_chunk) |-> SentenceLen(current_chunk[i]) + 2])

\* the loop over the sentences of a paragraph of more than 1000 characters: a
\* sentence joins current_chunk while the two stay under 800 characters, else
\* current_chunk is emitted and the sentence starts the next one; what is left at
\* the end is emitted too
RECURSIVE Resplit(_, _, _)
Resplit(sentences, current_chunk, chunks) ==
    IF sentences = <<>> THEN
        IF current_chunk # <<>> THEN Append(chunks, current_chunk) ELSE chunks
    ELSE IF CurrentLen(current_chunk) + SentenceLen(Head(sentences)) < MaxChunkLen THEN
        Resplit(Tail(sentences), Append(current_chunk, Head(sentences)), chunks)
    ELSE
        Resplit(Tail(sentences), <<Head(sentences)>>,
                IF current_chunk # <<>> THEN Append(chunks, current_chunk) ELSE chunks)

\* the chunks one paragraph adds
ParagraphChunks(p) ==
    IF ParLen(p) < MinChunkLen THEN <<>>
    ELSE IF ParLen(p) > MaxParagraphLen THEN Resplit(Sentences(p), <<>>, <<>>)
    ELSE <<<<p>>>>

RECURSIVE ChunksOf(_)
ChunksOf(paragraphs) ==
    IF paragraphs = <<>> THEN <<>>
    ELSE ParagraphChunks(Head(paragraphs)) \o ChunksOf(Tail(paragraphs))

\* len(chunk): sentences with their ". " less the stripped last space, or
\* paragraphs (words) joined by single spaces
ChunkLen(chunk) ==
    IF chunk = <<>> THEN 0
    ELSE IF chunk[1] \in SentenceIds THEN CurrentLen(chunk) - 1
    ELSE SeqSum([i \in 1..Len(chunk) |-> ParLen(chunk[i])]) + (Len(chunk) - 1)

\* _split_business_logic_content: a paragraph of at least 50 characters is a
\* chunk, or the chunks of its sentences when it has more than 1000; with no chunk
\* and a text that is not whitespace only, one window over all the words (the
\* texts here have fewer than 500) when it is longer than 50
SplitBusinessLogicContent(content) ==
    LET chunks == ChunksOf(Paragraphs(content))
    IN  IF chunks = <<>> /\ Paragraphs(content) # <<>>
        THEN IF JoinedLen(content) > MinChunkLen THEN <<Paragraphs(content)>> ELSE <<>>
        ELSE chunks

\* an ingest of business logic that starts from an empty store
ReplacesBothSlices(s, content, now, encode_ok) ==
    LET chunks == SplitBusinessLogicContent(content)
        swapped == [s EXCEPT !.business_logic_texts = chunks,
                             !.business_logic_metadata =
                                 [i \in 1..Len(chunks) |-> ChunkId(i - 1)],
                             !.is_business_logic_loaded = TRUE,
                             !.business_logic_upload_time = now,
                             !.table_names = <<>>,
                             !.schema_texts = <<>>,
                             !.table_metadata = {},
                             !.is_metadata_loaded = FALSE,
                             !.metadata_upload_time = NoTime]
        rebuilt == RebuildCombinedIndex(swapped, TRUE)
        request == [blank |-> Paragraphs(content) = <<>>, chunks |-> Len(chunks)]
    IN  IF chunks = <<>> THEN
            [store |-> s, saved |-> FALSE, success |-> FALSE,
             processed |-> 0, total |-> 0, request |-> request]
        ELSE
            [store |-> rebuilt.store, saved |-> TRUE, success |-> TRUE,
             processed |-> Len(chunks), total |-> Len(chunks), request |-> request]

\* an ingest that replaces the stored chunks before it checks that there are any
ClearsBeforeChunking(s, content, now, encode_ok) ==
    LET chunks == SplitBusinessLogicContent(content)
    IN  [store |-> [s EXCEPT !.business_logic_texts = chunks,
                             !.business_logic_metadata =
                                 [i \in 1..Len(chunks) |-> ChunkId(i - 1)]],
         saved |-> FALSE, success |-> FALSE, processed |-> 0, total |-> 0,
         request |-> [blank |-> Paragraphs(content) = <<>>, chunks |-> Len(chunks)]]

\* process_business_logic_file
ProcessBusinessLogicFile(s, content, now, encode_ok) ==
    LET chunks == SplitBusinessLogicContent(content)
        swapped == [s EXCEPT !.business_logic_texts = chunks,
                             !.business_logic_metadata =
                                 [i \in 1..Len(chunks) |-> ChunkId(i - 1)],
                             !.is_business_logic_loaded = TRUE,
                             !.business_logic_upload_time = now]
        rebuilt == RebuildCombinedIndex(swapped, encode_ok)
        request == [blank |-> Paragraphs(content) = <<>>, chunks |-> Len(chunks)]
    IN  IF chunks = <<>> THEN
            [store |-> s, saved |-> FALSE, success |-> FALSE,
             processed |-> 0, total |-> 0, request |-> request]
        ELSE IF rebuilt.raised THEN
            [store |-> rebuilt.store, saved |-> FALSE, success |-> FALSE,
             processed |-> 0, total |-> 0, request |-> request]
        ELSE
            [store |-> rebuilt.store, saved |-> TRUE, success |-> TRUE,
             processed |-> Len(chunks), total |-> Len(chunks), request |-> request]

\* process_business_logic_file up to its call of _rebuild_combined_index
SwapBusinessLogic(s, content, now) ==
    LET chunks == SplitBusinessLogicContent(content)
    IN  IF chunks = <<>> THEN [store |-> s, raised |-> TRUE]
        ELSE [store |-> [s EXCEPT !.business_logic_texts = chunks,
                                  !.business_logic_metadata =
                                      [i \in 1..Len(chunks) |-> ChunkId(i - 1)],
                                  !.is_business_logic_loaded = TRUE,
                                  !.business_logic_upload_time = now],
              raised |-> FALSE]

\* rebuild_index: raises ValueError with nothing loaded, and propagates what
\* _rebuild_combined_index raises; success = it returned
RebuildIndex(s, encode_ok) ==
    LET rebuilt == RebuildCombinedIndex(s, encode_ok)
        request == [loaded |-> s.is_metadata_loaded \/ s.is_business_logic_loaded]
    IN  IF ~s.is_metadata_loaded /\ ~s.is_business_logic_loaded THEN
            [store |-> s, saved |-> FALSE, success |-> FALSE,
             processed |-> 0, total |-> 0, request |-> request]
        ELSE IF rebuilt.raised THEN
            [store |-> rebuilt.store, saved |-> FALSE, success |-> FALSE,
             processed |-> 0, total |-> 0, request |-> request]
        ELSE
            [store |-> rebuilt.store, saved |-> TRUE, success |-> TRUE,
             processed |-> 0, total |-> 0, request |-> request]

\* ---------------------------------------------------------------- persistence

FileNames == {"metadata", "business_logic", "combined_texts", "vector_index"}

EmptyDisk == [f \in FileNames |-> Absent]

\* what _save_to_disk puts in each artifact
FileContent(s, f) ==
    CASE f = "metadata" ->
           [state |-> "ok",
            table_metadata |-> s.table_metadata,
            is_metadata_loaded |-> s.is_metadata_loaded,
            metadata_upload_time |-> IsoOrNull(s.metadata_upload_time)]
      [] f = "business_logic" ->
           [state |-> "ok",
            business_logic_texts |-> s.business_logic_texts,
            business_logic_metadata |-> s.business_logic_metadata,
            is_business_logic_loaded |-> s.is_business_logic_loaded,
            business_logic_upload_time |-> IsoOrNull(s.business_logic_upload_time)]
      [] f = "combined_texts" ->
           [state |-> "ok",
            combined_texts |-> s.combined_texts,
            text_types |-> s.text_types,
            text_identifiers |-> s.text_identifiers,
            schema_texts |-> s.schema_texts,
            table_names |-> s.table_names]
      [] OTHER ->
           [state |-> "ok", index |-> s.index]

\* a save that leaves the index file out
SaveFilesWithoutIndex(s) == <<"metadata", "business_logic", "combined_texts">>

\* the artifacts _save_to_disk writes, in its order; the index file only when
\* self.index is not None
SaveFiles(s) ==
    <<"metadata", "business_logic", "combined_texts">>
    \o (IF s.index.built THEN <<"vector_index">> ELSE <<>>)

\* How a save ends. failAt = 0: every write completes. failAt = i: the write of
\* the i-th artifact does not complete (an I/O error that _save_to_disk logs and
\* swallows, or, with crash, the death of the process); torn: that artifact was
\* already opened for writing and is left truncated.
NoFailure == [failAt |-> 0, torn |-> FALSE, crash |-> FALSE]

SaveCompletes(s, fate) == fate.failAt = 0 \/ fate.failAt > Len(SaveFiles(s))

\* _save_to_disk: the artifacts are written one after the other, each in place
SaveToDisk(s, d, fate) ==
    LET files == SaveFiles(s)
        n == IF SaveCompletes(s, fate) THEN Len(files) ELSE fate.failAt - 1
    IN  [f \in FileNames |->
            IF \E i \in 1..n : files[i] = f THEN FileContent(s, f)
            ELSE IF ~SaveCompletes(s, fate) /\ fate.torn /\ files[fate.failAt] = f
                 THEN Corrupt
                 ELSE d[f]]

\* _load_from_disk on the fields __init__ has just set: each artifact that
\* exists is read in turn; an artifact that cannot be read raises, and the
\* handler resets every field
LoadFromDisk(d) ==
    LET s0 == ResetState
        s1 == IF d["metadata"].state = "ok"
              THEN [s0 EXCEPT !.table_metadata = d["metadata"].table_metadata,
                              !.is_metadata_loaded = d["metadata"].is_metadata_loaded,
                              !.metadata_upload_time =
                                  IF d["metadata"].metadata_upload_time # Null
                                  THEN FromIsoFormat(d["metadata"].metadata_upload_time)
                                  ELSE @]
              ELSE s0
        s2 == IF d["business_logic"].state = "ok"
              THEN [s1 EXCEPT
                      !.business_logic_texts = d["business_logic"].business_logic_texts,
                      !.business_logic_metadata = d["business_logic"].business_logic_metadata,
                      !.is_business_logic_loaded = d["business_logic"].is_business_logic_loaded,
                      !.business_logic_upload_time =
                          IF d["business_logic"].business_logic_upload_time # Null
                          THEN FromIsoFormat(d["business_logic"].business_logic_upload_time)
                          ELSE @]
              ELSE s1
        s3 == IF d["combined_texts"].state = "ok"
              THEN [s2 EXCEPT
                      !.combined_texts = d["combined_texts"].combined_texts,
                      !.text_types = d["combined_texts"].text_types,
                      !.text_identifiers = d["combined_texts"].text_identifiers,
                      !.schema_texts = d["combined_texts"].schema_texts,
                      !.table_names = d["combined_texts"].table_names]
              ELSE s2
        s4 == IF d["vector_index"].state = "ok"
              THEN [s3 EXCEPT !.index = d["vector_index"].index]
              ELSE s3
    IN  IF \E f \in FileNames : d[f] = Corrupt THEN ResetState ELSE s4

\* a clear that leaves the index file where it is
ClearFilesWithoutIndex == <<"metadata", "business_logic", "combined_texts">>

\* the order in which clear_all removes the artifacts
ClearFiles == <<"metadata", "business_logic", "vector_index", "combined_texts">>

ClearCompletes(fate) == fate.failAt = 0

\* clear_all's removals: os.remove of each artifact that exists; a removal that
\* raises ends the loop (logged and swallowed)
RemoveFiles(d, fate) ==
    LET n == IF ClearCompletes(fate) THEN Len(ClearFiles) ELSE fate.failAt - 1
    IN  [f \in FileNames |->
            IF \E i \in 1..n : ClearFiles[i] = f THEN Absent ELSE d[f]]

\* a status that counts the registry's tables, not the list of table names
CountsRegisteredTables(s, d) ==
    [metadata_loaded |-> s.is_metadata_loaded,
     business_logic_loaded |-> s.is_business_logic_loaded,
     upload_time |-> IsoOrNull(s.metadata_upload_time),
     business_logic_upload_time |-> IsoOrNull(s.business_logic_upload_time),
     total_tables |-> Cardinality(s.table_metadata),
     total_business_logic_chunks |-> Len(s.business_logic_texts),
     index_built |-> s.index.built,
     files_exist |-> [f \in FileNames |-> d[f] # Absent]]

\* get_status: the flags, the upload times as get_status formats them, the counts,
\* and which artifacts exist (storage_path is fixed)
GetStatus(s, d) ==
    [metadata_loaded |-> s.is_metadata_loaded,
     business_logic_loaded |-> s.is_business_logic_loaded,
     upload_time |-> IsoOrNull(s.metadata_upload_time),
     business_logic_upload_time |-> IsoOrNull(s.business_logic_upload_time),
     total_tables |-> Len(s.table_names),
     total_business_logic_chunks |-> Len(s.business_logic_texts),
     index_built |-> s.index.built,
     files_exist |-> [f \in FileNames |-> d[f] # Absent]]

\* get_table_details: table_metadata.get(table_name)
GetTableDetails(s, table_name) ==
    IF table_name \in s.table_metadata THEN table_name ELSE None

\* ---------------------------------------------------------------- search

\* where model.encode puts a text on the line the model uses as embedding space
TextCoord(text) ==
    CASE text = <<"Table:", "users">> -> 2
      [] text = <<"Table:", "orders">> -> 6
      [] text[1] = "Business Logic:" -> 4
      [] OTHER -> 9

\* the embeddings of the commands the model asks
QueryVecs == {3, 7}

\* squared L2 distance between the query and an index row
L2(q, row) == (q - TextCoord(Tail(row))) * (q - TextCoord(Tail(row)))

\* the rows in S by non-decreasing distance, equal distances by row number
RECURSIVE NearestFirst(_, _, _)
NearestFirst(rows, q, S) ==
    IF S = {} THEN <<>>
    ELSE LET best == CHOOSE i \in S : \A j \in S :
                        \/ L2(q, rows[i]) < L2(q, rows[j])
                        \/ L2(q, rows[i]) = L2(q, rows[j]) /\ i <= j
         IN  <<best>> \o NearestFirst(rows, q, S \ {best})

\* index.search(vector, k): the k nearest rows as 0-based row numbers, -1 where the
\* index has fewer than k rows
FaissSearch(index, q, k) ==
    LET order == NearestFirst(index.rows, q, 1..Len(index.rows))
    IN  [i \in 1..k |-> IF i <= Len(order) THEN order[i] - 1 ELSE -1]

\* seq[idx] in Python: a negative idx counts from the end
InRange(seq, idx) == IF idx < 0 THEN -idx <= Len(seq) ELSE idx < Len(seq)
PyIndex(seq, idx) == IF idx < 0 THEN seq[Len(seq) + idx + 1] ELSE seq[idx + 1]

DbTables == <<"orders", "users">>

\* the database a search finds: the names get_table_names reports, and those of
\* them for which describe_table raises
LiveDb == [tables |-> DbTables, broken |-> {}]
EmptyDb == [tables |-> <<>>, broken |-> {}]
PartialDb == [tables |-> DbTables, broken |-> {"orders"}]
Databases == {LiveDb, EmptyDb, PartialDb}

\* build_from_database: skipped once metadata is loaded; otherwise every table the
\* database reports is described, and those described are appended to table_names
\* and indexed; with none described nothing is assigned
BuildFromDatabase(s, db) ==
    LET described == SelectSeq2(db.tables, Range(db.tables) \ db.broken)
        schemas == [i \in 1..Len(described) |-> <<"Table", described[i], "info">>]
    IN  IF s.is_metadata_loaded THEN s
        ELSE IF schemas = <<>> THEN s
        ELSE [s EXCEPT !.table_names = @ \o described,
                       !.index = NewIndex(Encode(schemas)),
                       !.schema_texts = schemas]

\* where seq[idx] reads: the 0-based position in seq
PyPosition(seq, idx) == IF idx < 0 THEN Len(seq) + idx ELSE idx

\* one iteration of search's loop over the row numbers faiss returned; row is the
\* position of the arrays the entry was read from
SearchEntry(s, idx) ==
    LET skip == [kind |-> "skip", identifier |-> None, has_schema |-> FALSE, row |-> -1]
        oops == [kind |-> "raise", identifier |-> None, has_schema |-> FALSE, row |-> -1]
        taken == IF s.combined_texts # <<>> THEN idx < Len(s.combined_texts)
                 ELSE Len(s.table_names) # 0
    IN  IF ~taken THEN skip
        ELSE IF s.combined_texts # <<>> THEN
            IF ~(InRange(s.text_types, idx) /\ InRange(s.text_identifiers, idx)
                 /\ InRange(s.combined_texts, idx)) THEN oops
            ELSE IF PyIndex(s.text_types, idx) = "schema" THEN
                [kind |-> "hit", identifier |-> PyIndex(s.text_identifiers, idx),
                 has_schema |-> PyIndex(s.text_identifiers, idx) \in s.table_metadata,
                 row |-> PyPosition(s.combined_texts, idx)]
            ELSE
                [kind |-> "hit", identifier |-> PyIndex(s.text_identifiers, idx),
                 has_schema |-> FALSE,
                 row |-> PyPosition(s.combined_texts, idx)]
        ELSE
            IF ~(InRange(s.table_names, idx) /\ InRange(s.schema_texts, idx)) THEN oops
            ELSE [kind |-> "hit", identifier |-> PyIndex(s.table_names, idx),
                  has_schema |-> PyIndex(s.table_names, idx) \in s.table_metadata,
                  row |-> PyPosition(s.schema_texts, idx)]

RECURSIVE Hits(_)
Hits(entries) ==
    IF entries = <<>> THEN <<>>
    ELSE IF Head(entries).kind = "hit" THEN <<Head(entries)>> \o Hits(Tail(entries))
         ELSE Hits(Tail(entries))

\* search(query, k): the store it leaves (the fallback build), whether it raised
\* (IndexError), and the results
Search(s, q, k, db) ==
    LET built == IF s.index.built THEN s ELSE BuildFromDatabase(s, db)
        indices == FaissSearch(built.index, q, k)
        entries == [i \in 1..k |-> SearchEntry(built, indices[i])]
    IN  IF ~built.index.built THEN [store |-> built, raised |-> FALSE, results |-> <<>>]
        ELSE IF \E i \in 1..k : entries[i].kind = "raise"
             THEN [store |-> built, raised |-> TRUE, results |-> <<>>]
             ELSE [store |-> built, raised |-> FALSE, results |-> Hits(entries)]

\* ---------------------------------------------------------------- query

\* the columns of the catalogue's tables (metadata["schema"]["columns"])
Columns(t) == CASE t = "users" -> {"user_id", "name"}
                [] t = "orders" -> {"order_id", "user_id", "total"}
                [] OTHER -> {}

\* the SQL statements the provider of the model writes
SqlTexts == {"SELECT name FROM users",
             "SELECT users.salary FROM users",
             "SELECT fk_user_id FROM orders"}

Prose == "I cannot answer that"

\* the table.column references of a statement (pattern 1)
QualifiedRefs(sql) ==
    IF sql = "SELECT users.salary FROM users" THEN {<<"users", "salary">>} ELSE {}

\* the words of its SELECT/WHERE/ON/ORDER BY/GROUP BY parts that are longer than 2
\* characters and no keyword (pattern 2)
ColumnWords(sql) ==
    CASE sql = "SELECT name FROM users" -> {"name"}
      [] sql = "SELECT users.salary FROM users" -> {"users", "salary"}
      [] sql = "SELECT fk_user_id FROM orders" -> {"fk_user_id"}
      [] OTHER -> {}

\* common_mistakes, or '_' in col, or col ends with id, name or date
LooksLikeColumn(w) == w \in {"name", "fk_user_id", "user_id", "order_id"}

\* _validate_sql_columns: the issues it collects (its message joins the first
\* three; no statement of the model has more than two)
ValidationIssues(sql, results) ==
    LET tables == {results[i].identifier : i \in {j \in 1..Len(results) : results[j].has_schema}}
        all_columns == UNION {Columns(t) : t \in tables}
        issues1 == {ref \in QualifiedRefs(sql) :
                      ref[1] \in tables /\ ref[2] \notin Columns(ref[1])}
        issues2 == {<<w>> : w \in {v \in ColumnWords(sql) :
                      v \notin tables /\ v \notin all_columns /\ LooksLikeColumn(v)}}
    IN  issues1 \cup issues2

\* _validate_sql_columns: (is_valid, validation_message)
ValidateSqlColumns(sql, results) ==
    [is_valid |-> ValidationIssues(sql, results) = {},
     message |-> ValidationIssues(sql, results)]

\* What the provider answers to one call: an exception, or a text, here the
\* sequence of its parts: a statement or prose, alone, followed by a semicolon, or
\* inside a ~~~sql fence (the model writes the backquote fence with tildes); or an empty fence.
Raises == [raises |-> TRUE, content |-> <<>>]

Bodies == SqlTexts \cup {Prose}

Responses ==
    {Raises}
    \cup {[raises |-> FALSE, content |-> c] :
            c \in {<<"~~~sql", "~~~">>}
                  \cup {<<b, ";">> : b \in Bodies}
                  \cup {<<"~~~sql", b, "~~~">> : b \in Bodies}}

\* the later answers of a scripted provider
LaterResponses ==
    {[raises |-> FALSE, content |-> <<b>>] :
        b \in {"SELECT name FROM users", "SELECT fk_user_id FROM orders"}}

\* the answers a scripted provider gives to its first, second and third call
Scripts ==
    {<<r1, r2, r3>> : r1 \in Responses, r2 \in LaterResponses, r3 \in LaterResponses}

RECURSIVE DropAll(_, _)
DropAll(parts, drop) ==
    IF parts = <<>> THEN <<>>
    ELSE IF Head(parts) \in drop THEN DropAll(Tail(parts), drop)
         ELSE <<Head(parts)>> \o DropAll(Tail(parts), drop)

\* _clean_sql_output: the fence lines and the trailing semicolon go; what is left
\* is the statement, or the text itself when it holds no statement, or ""
CleanSqlOutput(response) ==
    LET unfenced == DropAll(response.content, {"~~~sql", "~~~"})
        stripped == IF unfenced # <<>> /\ unfenced[Len(unfenced)] = ";"
                    THEN SubSeq(unfenced, 1, Len(unfenced) - 1)
                    ELSE unfenced
    IN  IF stripped = <<>> THEN "" ELSE stripped[1]

\* the k of the search process_query makes
SearchK == 8

\* QueryResponse.error: None, or a message, here its fixed text and the detail
\* formatted into it
NoError == [text |-> None, detail |-> {}]
Error(text) == [text |-> text, detail |-> {}]

\* QueryResponse and what the model records beside it: the path taken, whether an
\* exception left process_query, the calls made to the provider to generate and
\* to repair, and the validations
Outcome(path, success, sql_query, result, error, llm_calls, validations) ==
    [path |-> path, success |-> success, sql_query |-> sql_query, result |-> result,
     error |-> error, raised |-> FALSE, llm_calls |-> llm_calls, repair_calls |-> 0,
     validations |-> validations]

\* a fallback that calls the provider again and again when it raises
RetryingFallback(svc, include_sql, answer) ==
    IF answer.raises
    THEN Outcome("fallback", FALSE, None, None,
                 Error("Fallback query generation failed: provider error"), 4, 0)
    ELSE Outcome("fallback", TRUE, IF include_sql THEN CleanSqlOutput(answer) ELSE None,
                 CleanSqlOutput(answer), NoError, 1, 0)

\* _process_query_fallback: one call to the provider on the names of the
\* database's tables; whatever the cleaning leaves is returned as a success
ProcessQueryFallback(svc, include_sql, answer) ==
    LET sql_query == CleanSqlOutput(answer)
    IN  IF svc = "no_sql_db" THEN
            Outcome("fallback", FALSE, None, None,
                    Error("Fallback query generation failed: no attribute sql_db"), 0, 0)
        ELSE IF answer.raises THEN
            Outcome("fallback", FALSE, None, None,
                    Error("Fallback query generation failed: provider error"), 1, 0)
        ELSE
            Outcome("fallback", TRUE, IF include_sql THEN sql_query ELSE None,
                    sql_query, NoError, 1, 0)

\* a response that skips the test of is_valid
ReturnsUnvalidated(sql_query, checked, include_sql) ==
    Outcome("retrieval", TRUE, IF include_sql THEN sql_query ELSE None,
            sql_query, NoError, 1, 1)

\* a response that carries the statement whatever include_sql says
AlwaysCarriesSql(sql_query, checked, include_sql) ==
    IF ~checked.is_valid THEN
        Outcome("retrieval", FALSE, sql_query, None,
                [text |-> "Generated SQL contains invalid column names: ",
                 detail |-> checked.message],
                1, 1)
    ELSE
        Outcome("retrieval", TRUE, sql_query, sql_query, NoError, 1, 1)

\* a response that asks the provider once to repair an invalid statement
RepairsOnce(sql_query, checked, include_sql) ==
    IF ~checked.is_valid THEN
        [Outcome("retrieval", FALSE, IF include_sql THEN sql_query ELSE None, None,
                 [text |-> "Generated SQL contains invalid column names: ",
                  detail |-> checked.message],
                 2, 2) EXCEPT !.repair_calls = 1]
    ELSE
        Outcome("retrieval", TRUE, IF include_sql THEN sql_query ELSE None,
                sql_query, NoError, 1, 1)

\* process_query from the validation on: an invalid statement is the end of the
\* query, a valid one is the result
ValidatedResponse(sql_query, checked, include_sql) ==
    IF ~checked.is_valid THEN
        Outcome("retrieval", FALSE, IF include_sql THEN sql_query ELSE None, None,
                [text |-> "Generated SQL contains invalid column names: ",
                 detail |-> checked.message],
                1, 1)
    ELSE
        Outcome("retrieval", TRUE, IF include_sql THEN sql_query ELSE None,
                sql_query, NoError, 1, 1)

\* a generation outside the try block: the provider's exception leaves process_query
PropagatesProviderError(found, include_sql, answer) ==
    IF answer.raises THEN
        [Outcome("retrieval", FALSE, None, None, NoError, 1, 0) EXCEPT !.raised = TRUE]
    ELSE IF CleanSqlOutput(answer) = "" THEN
        Outcome("retrieval", FALSE, None, None, Error("Generated SQL query is empty"), 1, 0)
    ELSE
        ValidatedResponse(CleanSqlOutput(answer),
                          ValidateSqlColumns(CleanSqlOutput(answer), found.results),
                          include_sql)

\* process_query from the call of the provider on: one generation, the cleaning,
\* one validation; the except clause turns an exception into a response
GenerateSql(found, include_sql, answer) ==
    LET sql_query == CleanSqlOutput(answer)
    IN  IF answer.raises THEN
            Outcome("retrieval", FALSE, None, None, Error("provider error"), 1, 0)
        ELSE IF sql_query = "" THEN
            Outcome("retrieval", FALSE, None, None,
                    Error("Generated SQL query is empty"), 1, 0)
        ELSE
            ValidatedResponse(sql_query, ValidateSqlColumns(sql_query, found.results),
                              include_sql)

\* a retrieval that goes on to the provider with no result
GeneratesWithoutResults(found, include_sql, answer) ==
    IF found.raised THEN
        Outcome("retrieval", FALSE, None, None, Error("list index out of range"), 0, 0)
    ELSE
        GenerateSql(found, include_sql, answer)

\* process_query after the test of the store: the search, whose exception the
\* except clause turns into a response, then the generation unless it found nothing
ProcessQueryRetrieval(found, include_sql, answer) ==
    IF found.raised THEN
        Outcome("retrieval", FALSE, None, None, Error("list index out of range"), 0, 0)
    ELSE IF found.results = <<>> THEN
        Outcome("retrieval", FALSE, None, None,
                Error("No relevant tables found for this query"), 0, 0)
    ELSE
        GenerateSql(found, include_sql, answer)

\* a process_query that takes the fallback only when nothing at all is loaded
FallsBackWhenNothingLoaded(svc, s, include_sql, q, script) ==
    LET found == Search(s, q, SearchK, LiveDb)
    IN  IF svc # "ok" \/ (~s.is_metadata_loaded /\ ~s.is_business_logic_loaded)
        THEN [store |-> s, response |-> ProcessQueryFallback(svc, include_sql, script[1])]
        ELSE [store |-> found.store,
              response |-> ProcessQueryRetrieval(found, include_sql, script[1])]

\* a process_query that asks the provider without searching the store
SkipsRetrieval(svc, s, include_sql, q, script) ==
    [store |-> s, response |-> ProcessQueryFallback(svc, include_sql, script[1])]

\* process_query: the fallback when there is no store or no metadata is loaded
ProcessQuery(svc, s, include_sql, q, script) ==
    LET found == Search(s, q, SearchK, LiveDb)
    IN  IF svc # "ok" \/ ~s.is_metadata_loaded
        THEN [store |-> s, response |-> ProcessQueryFallback(svc, include_sql, script[1])]
        ELSE [store |-> found.store,
              response |-> ProcessQueryRetrieval(found, include_sql, script[1])]

\* ---------------------------------------------------------------- actions

ServiceStates == {"ok", "no_store", "no_sql_db"}

Init ==
    /\ service \in ServiceStates
    /\ store = ResetState
    /\ disk = EmptyDisk
    /\ durable = EmptyDisk
    /\ faults = 0
    /\ last = [op |-> "init"]
    /\ tasks = <<>>

\* the crashes and I/O errors the environment may still inject
Budget(failures) == IF faults < MaxFaults THEN failures ELSE {}

\* what a store operation leaves: r is the operation's outcome on the fields, and
\* the save it ends with runs to its fate
Mutation(op, r, fate) ==
    /\ UNCHANGED tasks
    /\ faults' = IF fate # NoFailure THEN faults + 1 ELSE faults
    /\ disk' = IF r.saved THEN SaveToDisk(r.store, disk, fate) ELSE disk
    /\ durable' = IF r.saved /\ SaveCompletes(r.store, fate) THEN disk' ELSE durable
    /\ IF r.saved /\ fate.crash /\ ~SaveCompletes(r.store, fate)
       THEN /\ service' = "down"
            /\ store' = ResetState
            /\ last' = [op |-> "crash", during |-> op, failAt |-> fate.failAt]
       ELSE /\ service' = service
            /\ store' = r.store
            /\ last' = [op |-> op, success |-> r.success,
                        persisted |-> r.saved /\ SaveCompletes(r.store, fate),
                        save_failed |-> r.saved /\ ~SaveCompletes(r.store, fate),
                        processed |-> r.processed, total |-> r.total,
                        request |-> r.request]

\* a fate matters only to an operation that reaches its save
FatesOf(r, fates) == IF r.saved THEN {NoFailure} \cup Budget(fates) ELSE {NoFailure}

\* the background task of an upload of metadata: process_metadata
ProcessMetadataStep(docs, times, fates, encoder_failures) ==
    /\ service = "ok"
    /\ \E doc \in docs, now \in times, encode_ok \in {TRUE} \cup encoder_failures :
         LET r == ProcessMetadata(store, doc, now, encode_ok)
         IN  \E fate \in FatesOf(r, fates) :
                Mutation("process_metadata", r, fate)

\* the background task of an upload of business logic: process_business_logic_file
ProcessBusinessLogicStep(contents, times, fates, encoder_failures) ==
    /\ service = "ok"
    /\ \E content \in contents, now \in times, encode_ok \in {TRUE} \cup encoder_failures :
         LET r == ProcessBusinessLogicFile(store, content, now, encode_ok)
         IN  \E fate \in FatesOf(r, fates) :
                Mutation("process_business_logic_file", r, fate)

RebuildIndexStep(fates, encoder_failures) ==
    /\ service = "ok"
    /\ \E encode_ok \in {TRUE} \cup encoder_failures :
         LET r == RebuildIndex(store, encode_ok)
         IN  \E fate \in FatesOf(r, fates) :
                Mutation("rebuild_index", r, fate)

\* clear_all: _reset_state, then the removals
ClearAllStep(fates) ==
    /\ service = "ok"
    /\ UNCHANGED tasks
    /\ \E fate \in {NoFailure} \cup Budget(fates) :
         /\ faults' = IF fate # NoFailure THEN faults + 1 ELSE faults
         /\ disk' = RemoveFiles(disk, fate)
         /\ durable' = IF ClearCompletes(fate) THEN disk' ELSE durable
         /\ store' = ResetState
         /\ IF fate.crash /\ ~ClearCompletes(fate)
            THEN /\ service' = "down"
                 /\ last' = [op |-> "crash", during |-> "clear_all",
                             failAt |-> fate.failAt]
            ELSE /\ service' = service
                 /\ last' = [op |-> "clear_all", success |-> TRUE,
                             persisted |-> ClearCompletes(fate),
                             save_failed |-> ~ClearCompletes(fate),
                             processed |-> 0, total |-> 0,
                             request |-> [repeated |-> last.op = "clear_all"]]

\* the store's mutating operations
StoreOperations ==
    {"process_metadata", "process_business_logic_file", "rebuild_index", "clear_all"}

\* search(query, k) called on the store: what it returns is recorded as the array
\* positions of the results and the distance of each result's text from the query;
\* builds counts the searches in a row that introspected the database (a search on
\* a built index does not look at the database)
SearchStep(queries, ks, dbs) ==
    /\ service = "ok"
    /\ \E q \in queries, k \in ks,
          db \in IF store.index.built THEN {LiveDb} ELSE dbs :
         LET found == Search(store, q, k, db)
             fallback == ~store.index.built /\ ~store.is_metadata_loaded
             before == IF last.op = "search" THEN last.builds ELSE 0
             builds == IF fallback THEN before + 1 ELSE before
             texts == IF found.store.combined_texts # <<>>
                      THEN found.store.combined_texts
                      ELSE found.store.schema_texts
             rows == [i \in 1..Len(found.results) |-> found.results[i].row]
         IN  /\ builds <= MaxBuilds
             /\ store' = found.store
             /\ last' = [op |-> "search", k |-> k, q |-> q, raised |-> found.raised,
                         fallback |-> fallback, builds |-> builds,
                         built |-> found.store.index.built,
                         index_rows |-> Len(found.store.index.rows),
                         results |-> Len(found.results),
                         rows |-> rows,
                         distances |-> [i \in 1..Len(rows) |->
                                          L2(q, Encode(<<texts[rows[i] + 1]>>)[1])]]
    /\ UNCHANGED <<disk, durable, service, faults, tasks>>

\* process start: TextToSQLService.__init__ builds the store, whose __init__ ends
\* with _load_from_disk; when __init__ raises there is no store
StartupStep(outcomes) ==
    /\ \E outcome \in outcomes :
         /\ service' = outcome
         /\ store' = IF outcome = "ok" THEN LoadFromDisk(disk) ELSE ResetState
    /\ last' = [op |-> "startup", after_crash |-> (service = "down"),
                during |-> IF service = "down" THEN last.during ELSE None,
                after |-> last.op,
                after_success |-> last.op \in StoreOperations /\ last.success]
    /\ UNCHANGED <<disk, durable, faults, tasks>>

\* ---------------------------- the store under crashes and I/O errors (Spec)

\* the metadata documents over a set of table names; a document without the
\* 'metadata' or 'tables' key is rejected whatever else it holds
MetadataDocsUpTo(names, n) ==
    {[has_keys |-> FALSE, tables |-> <<>>]}
    \cup [has_keys : {TRUE}, tables : SeqsUpTo(names \cup {Malformed}, n)]

MetadataDocsOver(names) == MetadataDocsUpTo(names, MaxTables)

\* the process dies while the save (or the clear) is under way
CrashFates == [failAt : 1..4, torn : BOOLEAN, crash : {TRUE}]

\* a write (or a removal) raises OSError: the operation logs it and goes on
IoErrorFates == [failAt : 1..4, torn : BOOLEAN, crash : {FALSE}]

Fates == CrashFates \cup IoErrorFates

\* the documents uploaded over one table
UsersDocs == MetadataDocsOver({"users"})

process_metadata == ProcessMetadataStep(UsersDocs, {T1}, Fates, {})

process_business_logic_file ==
    ProcessBusinessLogicStep(BusinessLogicContents, {T2}, Fates, {})

rebuild_index == RebuildIndexStep(Fates, {})

clear_all == ClearAllStep(Fates)

startup == StartupStep({"ok"})

Next ==
    \/ process_metadata
    \/ process_business_logic_file
    \/ rebuild_index
    \/ clear_all
    \/ startup

\* the service came up with its store
InitStore == Init /\ service = "ok"

Spec == InitStore /\ [][Next]_vars

\* ------------------------------------------- queries on the store (SpecQuery)

\* no query is waiting for its response to be returned
NoQueryPending == last.op # "process_query"

\* model.encode raises
EncoderFailure == {FALSE}

\* the documents uploaded over the catalogue's tables
CatalogueDocs == MetadataDocsOver(TableNames)

process_metadata_file_background ==
    /\ NoQueryPending
    /\ ProcessMetadataStep(CatalogueDocs, {T1}, {}, EncoderFailure)

process_business_logic_background ==
    /\ NoQueryPending
    /\ ProcessBusinessLogicStep(BusinessLogicContents, {T2}, {}, EncoderFailure)

rebuild_knowledge_base ==
    /\ NoQueryPending
    /\ RebuildIndexStep({}, EncoderFailure)

clear_knowledge_base ==
    /\ NoQueryPending
    /\ ClearAllStep({})

get_text_to_sql_service ==
    /\ NoQueryPending
    /\ StartupStep(ServiceStates)

\* what the scripted provider's i-th answer is once cleaned, and the issues the
\* validation against the results of the search finds in it
Attempt(answer, results) ==
    [raises |-> answer.raises,
     sql |-> CleanSqlOutput(answer),
     issues |-> ValidationIssues(CleanSqlOutput(answer), results)]

\* what a call of process_query can leave, over the commands, the flag and the
\* provider's answers
QueryOutcomes(svc, s) ==
    UNION {LET found == Search(s, q, SearchK, LiveDb)
           IN  {LET r == ProcessQuery(svc, s, include_sql, q, script)
                IN  [store |-> r.store,
                     last |-> [op |-> "process_query",
                               response |-> r.response,
                               include_sql |-> include_sql,
                               store_available |-> (svc = "ok"),
                               metadata_loaded |-> s.is_metadata_loaded,
                               business_logic_loaded |-> s.is_business_logic_loaded,
                               search_raised |-> found.raised,
                               search_empty |-> (found.results = <<>>),
                               attempts |-> [i \in 1..3 |->
                                               Attempt(script[i], found.results)]]] :
                   include_sql \in BOOLEAN, script \in Scripts} : q \in QueryVecs}

\* the query route calls process_query with the request's command and flag
process_query ==
    /\ NoQueryPending
    /\ service # "down"
    /\ \E o \in QueryOutcomes(service, store) :
         /\ store' = o.store
         /\ last' = o.last
    /\ UNCHANGED <<disk, durable, service, faults, tasks>>

\* the route returns the response
execute_natural_language_query ==
    /\ last.op = "process_query"
    /\ last' = [op |-> "returned"]
    /\ UNCHANGED <<store, disk, durable, service, faults, tasks>>

NextQuery ==
    \/ process_metadata_file_background
    \/ process_business_logic_background
    \/ rebuild_knowledge_base
    \/ clear_knowledge_base
    \/ get_text_to_sql_service
    \/ process_query
    \/ execute_natural_language_query

SpecQuery == Init /\ [][NextQuery]_vars

\* ------------------------------- the store on working storage (SpecIngest)

MaxBatch == 4
MaxK == 3

\* uploaded texts, blank parts included
BusinessLogicTexts == SeqsUpTo(ParagraphIds \cup {Blank}, MaxParagraphs)

\* uploaded documents of up to MaxBatch entries
MetadataBatches == MetadataDocsUpTo({"users"}, MaxBatch)

process_metadata_ok == ProcessMetadataStep(MetadataBatches, {T1}, {}, {})

process_business_logic_file_ok ==
    ProcessBusinessLogicStep(BusinessLogicTexts, Times, {}, {})

rebuild_index_ok == RebuildIndexStep({}, {})

clear_all_ok == ClearAllStep({})

\* a new store is constructed over the same storage path
load_from_disk == StartupStep({"ok"})

search == SearchStep(QueryVecs, 1..MaxK, Databases)

NextIngest ==
    \/ process_metadata_ok
    \/ process_business_logic_file_ok
    \/ rebuild_index_ok
    \/ clear_all_ok
    \/ load_from_disk
    \/ search

SpecIngest == InitStore /\ [][NextIngest]_vars

\* ------------------- requests served while background tasks run (SpecConcurrent)

MaxTasks == 2

\* limit: int = 5 of search_tables
DefaultLimit == 5

NoDoc == [has_keys |-> FALSE, tables |-> <<>>]

\* what a task does before _rebuild_combined_index
TaskStart(t, s) ==
    CASE t.op = "process_metadata" -> SwapMetadata(s, t.doc, T1)
      [] t.op = "process_business_logic_file" -> SwapBusinessLogic(s, t.content, T2)
      [] OTHER -> [store |-> s,
                   raised |-> ~s.is_metadata_loaded /\ ~s.is_business_logic_loaded]

\* what the route answers once the task is added: success, the size of what was
\* uploaded, and no processed count or upload time (None also where the response
\* has no such field)
Acknowledgment(doc, content) ==
    [success |-> TRUE, processed_tables |-> None, upload_time |-> None,
     total_tables |-> Len(doc.tables), content_length |-> JoinedLen(content)]

\* a route that starts the ingest itself and answers with how it went
AnswersAfterIngest(op, doc, content) ==
    LET r == TaskStart([op |-> op, doc |-> doc, content |-> content], store)
    IN  /\ service = "ok"
        /\ Len(tasks) < MaxTasks
        /\ store' = r.store
        /\ tasks' = IF r.raised THEN tasks
                    ELSE Append(tasks, [op |-> op, pc |-> "swapped",
                                        doc |-> NoDoc, content |-> <<>>])
        /\ last' = [op |-> "upload", task |-> op,
                    response |-> [Acknowledgment(doc, content)
                                    EXCEPT !.success = ~r.raised]]
        /\ UNCHANGED <<disk, durable, service, faults>>

\* background_tasks.add_task and the route's return: the task is run in a worker
\* thread once the response is sent, whatever else is running
AddTask(op, doc, content) ==
    /\ service = "ok"
    /\ Len(tasks) < MaxTasks
    /\ tasks' = Append(tasks, [op |-> op, pc |-> "start", doc |-> doc, content |-> content])
    /\ last' = [op |-> "upload", task |-> op, response |-> Acknowledgment(doc, content)]
    /\ UNCHANGED <<store, disk, durable, service, faults>>

\* the route answers 400 to a document without its keys
upload_metadata_file ==
    \E doc \in {d \in UsersDocs : d.has_keys} :
        AddTask("process_metadata", doc, <<>>)

\* the route answers 400 to a blank text
upload_business_logic_file ==
    \E content \in {c \in BusinessLogicContents : Paragraphs(c) # <<>>} :
        AddTask("process_business_logic_file", NoDoc, content)

\* the route answers 404 when nothing is loaded
rebuild_vector_index ==
    /\ store.is_metadata_loaded \/ store.is_business_logic_loaded
    /\ AddTask("rebuild_index", NoDoc, <<>>)

\* the clear route calls clear_all on the event loop, next to the worker threads
clear_knowledge_base_inline == service = "ok" /\ ClearAllStep({})

Advance(i, pc) == [tasks EXCEPT ![i] = [@ EXCEPT !.pc = pc, !.doc = NoDoc, !.content = <<>>]]

Finish(i) == SubSeq(tasks, 1, i - 1) \o SubSeq(tasks, i + 1, Len(tasks))

\* a worker thread runs its task up to _rebuild_combined_index; what the task raises
\* is logged
background_task_starts ==
    \E i \in 1..Len(tasks) :
        /\ tasks[i].pc = "start"
        /\ LET r == TaskStart(tasks[i], store)
           IN  /\ store' = r.store
               /\ IF r.raised
                  THEN /\ tasks' = Finish(i)
                       /\ last' = [op |-> "task_done", task |-> tasks[i].op,
                                   success |-> FALSE]
                  ELSE /\ tasks' = Advance(i, "swapped")
                       /\ UNCHANGED last
        /\ UNCHANGED <<disk, durable, service, faults>>

\* a step of _rebuild_combined_index in a worker thread, leaving the store as after
RebuildStage(from, to, after) ==
    \E i \in 1..Len(tasks) :
        /\ tasks[i].pc = from
        /\ store' = after
        /\ tasks' = Advance(i, to)
        /\ UNCHANGED <<disk, durable, service, faults, last>>

rebuild_clears_arrays == RebuildStage("swapped", "cleared", ClearCombined(store))

rebuild_fills_arrays == RebuildStage("cleared", "filled", FillCombined(store))

rebuild_replaces_index == RebuildStage("filled", "indexed", IndexCombined(store))

\* the task ends with _save_to_disk
background_task_saves ==
    \E i \in 1..Len(tasks) :
        /\ tasks[i].pc = "indexed"
        /\ disk' = SaveToDisk(store, disk, NoFailure)
        /\ durable' = disk'
        /\ tasks' = Finish(i)
        /\ last' = [op |-> "task_done", task |-> tasks[i].op, success |-> TRUE]
        /\ UNCHANGED <<store, service, faults>>

\* the search route, on the event loop: what search reads of the store
search_tables ==
    /\ service = "ok"
    /\ store.is_metadata_loaded
    /\ \E q \in QueryVecs :
         LET found == Search(store, q, DefaultLimit, LiveDb)
         IN  /\ store' = found.store
             /\ last' = [op |-> "search_tables", in_flight |-> Len(tasks),
                         raised |-> found.raised,
                         index |-> store.index,
                         combined_texts |-> store.combined_texts,
                         text_types |-> store.text_types,
                         text_identifiers |-> store.text_identifiers]
    /\ UNCHANGED <<disk, durable, service, faults, tasks>>

NextConcurrent ==
    \/ upload_metadata_file
    \/ upload_business_logic_file
    \/ rebuild_vector_index
    \/ clear_knowledge_base_inline
    \/ background_task_starts
    \/ rebuild_clears_arrays
    \/ rebuild_fills_arrays
    \/ rebuild_replaces_index
    \/ background_task_saves
    \/ search_tables

SpecConcurrent == InitStore /\ [][NextConcurrent]_vars


\* ------------------------------------------------ the chunker (SpecChunker)

MaxParts == 3

\* the texts given to the chunker: short, medium and long paragraphs and blank
\* parts, in every order
SplitInputs == SeqsUpTo(ParagraphIds \cup LongParagraphIds \cup {Blank}, MaxParts)

InitChunker ==
    /\ service = "ok"
    /\ store = ResetState
    /\ disk = EmptyDisk
    /\ durable = EmptyDisk
    /\ faults = 0
    /\ tasks = <<>>
    /\ last \in {[op |-> "content", content |-> c] : c \in SplitInputs}

split_business_logic_content ==
    /\ last.op = "content"
    /\ last' = [op |-> "split", content |-> last.content,
                chunks |-> SplitBusinessLogicContent(last.content)]
    /\ UNCHANGED <<store, disk, durable, service, faults, tasks>>

NextChunker == split_business_logic_content

SpecChunker == InitChunker /\ [][NextChunker]_vars

\* ---------------------------------------------------------------- claims

IngestOrRebuild == {"process_metadata", "process_business_logic_file", "rebuild_index"}

\* the operation that just ended returned normally and reported success
Succeeded(ops) == last.op \in ops /\ last.success

\* the index has as many rows as there are combined texts (no index: no rows), the
\* three arrays have one length, and row i embeds combined_texts[i]
Aligned(s) ==
    /\ Len(s.index.rows) = Len(s.combined_texts)
    /\ Len(s.text_types) = Len(s.combined_texts)
    /\ Len(s.text_identifiers) = Len(s.combined_texts)
    /\ s.index.rows = Encode(s.combined_texts)

\* C1: after every successful process_metadata, process_business_logic_file or
\* rebuild_index, the index has len(combined_texts) rows, text_types and
\* text_identifiers have that length too, and row i is the embedding of
\* combined_texts[i].
C1_AlignedAfterSuccess == Succeeded(IngestOrRebuild) => Aligned(store)

\* the process has just started again after dying inside an ingest or a rebuild
RestartedAfterCrashIn(ops) ==
    last.op = "startup" /\ last.after_crash /\ last.during \in ops

\* C9: when the process dies at any point of a mutation (before the save, or
\* between two file writes of _save_to_disk), the state loaded at the next startup
\* is the state of the last save that completed, never a mix of two saves.
C9_CrashLoadsLastCompletedSave ==
    RestartedAfterCrashIn(IngestOrRebuild) => store = LoadFromDisk(durable)

Missing(f) == disk[f].state = "absent"
Unreadable(f) == disk[f].state = "corrupt"
Present(f) == disk[f].state # "absent"

\* C10: at startup, when one of the artifacts is missing or unreadable while
\* others are present, _load_from_disk leaves the empty state: flags false, arrays
\* empty, no index.
C10_IncompleteArtifactsLoadEmpty ==
    (/\ last.op = "startup"
     /\ \E f \in FileNames : Missing(f) \/ Unreadable(f)
     /\ \E f \in FileNames : Present(f))
    => store = ResetState

\* C11: when the durable write of an ingest or of a rebuild_index fails, the
\* operation does not report success.
C11_SaveFailureSurfaced ==
    (last.op \in IngestOrRebuild /\ last.save_failed) => ~last.success

\* every live document: the schema texts, then the business-logic chunks
LiveDocuments(s) ==
    s.schema_texts
    \o [i \in 1..Len(s.business_logic_texts) |->
           EnhancedBusinessText(s.business_logic_texts[i])]

\* C14: rebuild_index fails and changes nothing when neither metadata nor business
\* logic is loaded; otherwise it returns with the index built from every live
\* document, and the store persisted.
C14_RebuildReplacesIndex ==
    [][last'.op = "rebuild_index"
       => IF ~last'.request.loaded
          THEN ~last'.success /\ store' = store /\ disk' = disk
          ELSE /\ last'.success
               /\ store'.index.rows = Encode(LiveDocuments(store'))
               /\ last'.persisted]_vars

\* -------------------------------------------- claims on working storage

\* the fields of get_status a restart has to bring back
RestartFields ==
    {"metadata_loaded", "business_logic_loaded", "upload_time",
     "business_logic_upload_time", "total_tables", "total_business_logic_chunks",
     "index_built"}

RestartStatus(s, d) == [f \in RestartFields |-> GetStatus(s, d)[f]]

\* C12: a new store constructed over the same storage after a successful ingest or
\* rebuild reports the same metadata_loaded, business_logic_loaded, upload_time,
\* business_logic_upload_time, total_tables, total_business_logic_chunks and
\* index_built as the store before the restart.
C12_RestartKeepsStatus ==
    [][(last.op \in IngestOrRebuild /\ last.success /\ last'.op = "startup")
       => RestartStatus(store', disk') = RestartStatus(store, disk)]_vars

\* a restart right after a successful ingest, with both kinds loaded and an upload
\* time that isoformat() writes without microseconds
C12_RestartedAfterIngest ==
    /\ last.op = "startup"
    /\ last.after \in IngestOrRebuild
    /\ last.after_success
    /\ store.is_metadata_loaded
    /\ store.is_business_logic_loaded
    /\ store.index.built
    /\ store.metadata_upload_time = T1

\* C13: after clear_all the status is the empty one (nothing loaded, no table, no
\* chunk, no index) and no artifact is left on disk, whether the call is the first
\* or a second consecutive one.
C13_ClearAllIdempotent ==
    last.op = "clear_all"
    => GetStatus(store, disk) = GetStatus(ResetState, EmptyDisk) /\ disk = EmptyDisk

\* a second consecutive clear_all has returned
C13_ClearedTwice == last.op = "clear_all" /\ last.request.repeated

C19_BusinessLogicRejected ==
    [][(/\ last'.op = "process_business_logic_file"
        /\ (last'.request.blank \/ last'.request.chunks = 0))
       => /\ ~last'.success
          /\ store'.is_business_logic_loaded = store.is_business_logic_loaded
          /\ store'.business_logic_texts = store.business_logic_texts
          /\ store'.business_logic_metadata = store.business_logic_metadata]_vars

\* a text that is not blank and yields no chunk was rejected by a store that holds
\* business logic
C19_NoChunkOnLoadedStore ==
    /\ last.op = "process_business_logic_file"
    /\ ~last.success
    /\ ~last.request.blank
    /\ last.request.chunks = 0
    /\ store.is_business_logic_loaded
    /\ store.business_logic_texts # <<>>

\* C20: search returns at most k results, by non-decreasing distance from the
\* query, results at the same distance by their position in the index.
C20_SearchOrdered ==
    last.op = "search"
    => /\ Len(last.rows) <= last.k
       /\ \A i, j \in 1..Len(last.rows) :
             i < j => \/ last.distances[i] < last.distances[j]
                      \/ /\ last.distances[i] = last.distances[j]
                         /\ last.rows[i] <= last.rows[j]

\* the fields of the two slices of the store
MetadataSlice(s) ==
    <<s.table_names, s.schema_texts, s.table_metadata, s.is_metadata_loaded,
      s.metadata_upload_time>>

BusinessLogicSlice(s) ==
    <<s.business_logic_texts, s.business_logic_metadata, s.is_business_logic_loaded,
      s.business_logic_upload_time>>

\* the combined arrays hold the schema entries in table order, then the chunks in
\* chunk order
SchemasThenChunks(s) ==
    LET nb == Len(s.business_logic_texts)
    IN  /\ s.combined_texts
              = s.schema_texts
                \o [i \in 1..nb |-> EnhancedBusinessText(s.business_logic_texts[i])]
        /\ s.text_types
              = [i \in 1..Len(s.table_names) |-> "schema"]
                \o [i \in 1..nb |-> "business_logic"]
        /\ s.text_identifiers = s.table_names \o s.business_logic_metadata

\* C26: a successful business-logic ingest leaves table_names, schema_texts,
\* table_metadata, the metadata flag and the metadata upload time as they were; a
\* successful metadata ingest leaves the chunks, their metadata, the
\* business-logic flag and its upload time as they were; after either, the
\* combined arrays hold all schema entries in table order, then all chunks in
\* chunk order.
C26_IngestKeepsOtherSlice ==
    [][/\ (last'.op = "process_business_logic_file" /\ last'.success)
          => /\ MetadataSlice(store') = MetadataSlice(store)
             /\ SchemasThenChunks(store')
       /\ (last'.op = "process_metadata" /\ last'.success)
          => /\ BusinessLogicSlice(store') = BusinessLogicSlice(store)
             /\ SchemasThenChunks(store')]_vars

\* business logic was ingested into a store holding metadata
C26_BothSlicesLoaded ==
    /\ last.op = "process_business_logic_file"
    /\ last.success
    /\ store.is_metadata_loaded
    /\ store.table_names # <<>>
    /\ store.business_logic_texts # <<>>
    /\ "schema" \in Range(store.text_types)
    /\ "business_logic" \in Range(store.text_types)

\* C21: a search on an unbuilt index introspects the database once: it returns
\* nothing when that builds no index, and the searches that follow it do not
\* introspect the database again.
C21_FallbackBuildOnce ==
    last.op = "search"
    => /\ (last.fallback /\ ~last.built => last.results = 0 /\ ~last.raised)
       /\ last.builds <= 1

\* no element occurs twice in seq
NoRepeat(seq) == \A i, j \in 1..Len(seq) : seq[i] = seq[j] => i = j

\* the identifiers of the entries of one content type, in index order
IdentifiersOf(s, type) ==
    LET n == Min2(Len(s.text_types), Len(s.text_identifiers))
        at == {i \in 1..n : s.text_types[i] = type}
    IN  [i \in at |-> s.text_identifiers[i]]

\* C24: in every state no table name occurs twice in table_names or among the
\* schema entries of text_identifiers, and no chunk id occurs twice among the
\* business-logic entries.
C24_IdentifiersUnique ==
    /\ NoRepeat(store.table_names)
    /\ \A i, j \in DOMAIN IdentifiersOf(store, "schema") :
          IdentifiersOf(store, "schema")[i] = IdentifiersOf(store, "schema")[j] => i = j
    /\ \A i, j \in DOMAIN IdentifiersOf(store, "business_logic") :
          IdentifiersOf(store, "business_logic")[i]
              = IdentifiersOf(store, "business_logic")[j] => i = j

\* C28: a search returns at most min(k, number of index rows) results, each from
\* a different row of the index, also when k is larger than the number of rows.
C28_ResultsAreDistinctRows ==
    (last.op = "search" /\ ~last.raised)
    => /\ last.results <= Min2(last.k, last.index_rows)
       /\ NoRepeat(last.rows)

\* ----------------------------------------------------- claims on the chunker

\* C22: every chunk the chunker emits is non-empty and has at least 50 characters,
\* the chunks of the sentences of a paragraph of more than 1000 characters
\* included, and an empty text gives no chunk.
C22_ChunksAtLeastMinimum ==
    last.op = "split"
    => /\ \A i \in 1..Len(last.chunks) :
             /\ last.chunks[i] # <<>>
             /\ ChunkLen(last.chunks[i]) >= MinChunkLen
       /\ (last.content = <<>> => last.chunks = <<>>)

\* C27: the text of a paragraph of fewer than 50 characters is in no chunk the
\* chunker emits, also when every paragraph of the text is that short.
C27_ShortParagraphDiscarded ==
    last.op = "split"
    => \A i \in 1..Len(last.content), j \in 1..Len(last.chunks) :
          (last.content[i] # Blank /\ ParLen(last.content[i]) < MinChunkLen)
          => last.content[i] \notin Range(last.chunks[j])

\* ----------------------------------------------- claims on concurrent requests

\* C23: an upload is answered with the 'processing started' acknowledgment (success,
\* no processed count, no upload time) before its ingest has touched the store or
\* the disk; the ingest is left as a task that has not started.
C23_UploadAcknowledgedFirst ==
    [][Len(tasks') > Len(tasks)
       => /\ store' = store
          /\ disk' = disk
          /\ tasks'[Len(tasks')].pc = "start"
          /\ last'.op = "upload"
          /\ last'.response.success
          /\ last'.response.processed_tables = None
          /\ last'.response.upload_time = None]_vars

\* an acknowledged upload whose ingest, not yet started, is going to fail
C23_AcknowledgedThenFails ==
    /\ last.op = "upload"
    /\ last.task = "process_metadata"
    /\ last.response.success
    /\ tasks # <<>>
    /\ tasks[Len(tasks)].pc = "start"
    /\ tasks[Len(tasks)].op = "process_metadata"
    /\ TaskStart(tasks[Len(tasks)], store).raised

\* C15: at most one ingest, rebuild or clear is in flight at any time.
C15_OneMutationInFlight == Len(tasks) <= 1

\* C16: a search that runs while one ingest or rebuild is in flight reads arrays
\* that match the index it queries, in length and in content.
C16_SearchSeesWholeState ==
    (last.op = "search_tables" /\ last.in_flight = 1 /\ last.index.built)
    => /\ last.index.rows = Encode(last.combined_texts)
       /\ Len(last.text_types) = Len(last.combined_texts)
       /\ Len(last.text_identifiers) = Len(last.combined_texts)

\* ------------------------------------------------------ claims on process_query

Queried == last.op = "process_query"

\* the provider's i-th answer holds a statement
Generated(a) == ~a.raises /\ a.sql # ""
FailsValidation(a) == Generated(a) /\ a.issues # {}
PassesValidation(a) == Generated(a) /\ a.issues = {}

\* the query ran on a store with metadata loaded
OnLoadedStore == Queried /\ last.store_available /\ last.metadata_loaded

\* ... and its search came back with results
ReachedGeneration == OnLoadedStore /\ ~last.search_raised /\ ~last.search_empty

FallbackErrors == {"Fallback query generation failed: provider error",
                   "Fallback query generation failed: no attribute sql_db"}

\* C2 as stated: a query on a store with neither metadata nor business logic loaded
\* ends with success=false, the error 'knowledge base not loaded' and no call of
\* the provider.
C2_NothingLoadedFailsFast ==
    (Queried /\ ~last.metadata_loaded /\ ~last.business_logic_loaded)
    => /\ ~last.response.success
       /\ last.response.error.text = "knowledge base not loaded"
       /\ last.response.llm_calls = 0

\* C2 amended: a query with no store or with no metadata loaded (business logic or
\* not) takes the fallback: no validation, at most one call of the provider,
\* success=true exactly when that call returns, and a 'Fallback query generation
\* failed' error otherwise.
C2_NoMetadataFallsBack ==
    (Queried /\ (~last.store_available \/ ~last.metadata_loaded))
    => /\ last.response.path = "fallback"
       /\ last.response.validations = 0
       /\ last.response.llm_calls = IF service = "no_sql_db" THEN 0 ELSE 1
       /\ last.response.success <=> (service # "no_sql_db" /\ ~last.attempts[1].raises)
       /\ last.response.success => last.response.result = last.attempts[1].sql
       /\ ~last.response.success => last.response.error.text \in FallbackErrors

C2_FallbackAnswered ==
    /\ Queried /\ last.store_available
    /\ ~last.metadata_loaded /\ ~last.business_logic_loaded
    /\ last.response.success /\ last.response.llm_calls = 1

\* C3 as stated: a response with success=true carries a statement that passed the
\* validation of that query.
C3_SuccessOnlyIfValidated ==
    (Queried /\ last.response.success)
    => /\ last.response.validations > 0
       /\ PassesValidation(last.attempts[1])

\* C3 amended: a response with success=true of a query on a store with metadata
\* loaded carries the statement of the one generation, and that statement passed
\* the one validation of the query.
C3_LoadedSuccessIsValidated ==
    (OnLoadedStore /\ last.response.success)
    => /\ last.response.validations = 1
       /\ PassesValidation(last.attempts[1])
       /\ last.response.result = last.attempts[1].sql

C3_ValidatedSuccess ==
    OnLoadedStore /\ last.response.success /\ last.include_sql

\* the first two answers fail the validation and the third passes it
TwoFailuresThenValid ==
    /\ ReachedGeneration
    /\ FailsValidation(last.attempts[1])
    /\ FailsValidation(last.attempts[2])
    /\ PassesValidation(last.attempts[3])

\* C4 as stated: when the statement fails the validation on the first and second
\* attempt and passes on the third, the response is success=true with the third
\* statement after 3 generation calls, at most 3 validations and 2 repair calls.
C4_ThirdAttemptSucceeds ==
    TwoFailuresThenValid
    => /\ last.response.success
       /\ last.response.result = last.attempts[3].sql
       /\ last.response.llm_calls = 3
       /\ last.response.validations <= 3
       /\ last.response.repair_calls = 2

\* C4 amended: when the statement fails the validation on the first attempt the
\* response is success=false after exactly 1 generation call, 1 validation and no
\* repair call, whatever later attempts would have produced.
C4_FirstFailureIsFinal ==
    (ReachedGeneration /\ FailsValidation(last.attempts[1]))
    => /\ ~last.response.success
       /\ last.response.result = None
       /\ last.response.llm_calls = 1
       /\ last.response.validations = 1
       /\ last.response.repair_calls = 0

C4_ThirdWouldHavePassed == TwoFailuresThenValid /\ ~last.response.success

\* C5: whatever the provider answers, a query makes at most 3 generation or repair
\* calls and ends with a response.
C5_AtMostThreeAttempts ==
    Queried
    => /\ last.response.llm_calls + last.response.repair_calls <= 3
       /\ last.response.success \in BOOLEAN

C5_ProviderRaisedOnce ==
    /\ Queried /\ ~last.metadata_loaded /\ last.attempts[1].raises
    /\ last.response.llm_calls = 1

\* the failures C6 lists
TerminalFailure ==
    \/ ~last.store_available
    \/ OnLoadedStore /\ ~last.search_raised /\ last.search_empty
    \/ last.attempts[1].raises
    \/ ~last.attempts[1].raises /\ last.attempts[1].sql = ""
    \/ ReachedGeneration /\ FailsValidation(last.attempts[1])

\* C6 as stated: an unavailable store, an empty retrieval, a provider exception, an
\* empty cleaned statement and a failed validation each end the query with
\* success=false and a non-null error, and no exception leaves process_query.
C6_EveryFailureStructured ==
    (Queried /\ TerminalFailure)
    => /\ ~last.response.success
       /\ last.response.error # NoError
       /\ ~last.response.raised

\* C6 amended: no exception leaves process_query; a response has success=false
\* exactly when it has a non-null error; on a store with metadata loaded a failed
\* search, an empty retrieval, a provider exception, an empty cleaned statement
\* and a failed validation each give success=false, and so does a provider
\* exception in the fallback.
C6_FailuresStructured ==
    Queried
    => /\ ~last.response.raised
       /\ ~last.response.success <=> last.response.error # NoError
       /\ ~last.response.success => last.response.result = None
       /\ (OnLoadedStore /\ (\/ last.search_raised
                              \/ last.search_empty
                              \/ ~PassesValidation(last.attempts[1])))
          => ~last.response.success
       /\ (~OnLoadedStore /\ last.attempts[1].raises) => ~last.response.success

C6_ProviderExceptionCaught ==
    /\ ReachedGeneration /\ last.attempts[1].raises
    /\ ~last.response.success /\ last.response.error = Error("provider error")

\* C7 as stated: when the statement is invalid after the last attempt the error
\* response holds the validation message and the statement, whatever include_sql.
C7_InvalidCarriesSqlAlways ==
    (ReachedGeneration /\ FailsValidation(last.attempts[1]))
    => /\ last.response.error.detail = last.attempts[1].issues
       /\ last.response.sql_query = last.attempts[1].sql

\* C7 amended: when the statement is invalid after the one attempt the error
\* response holds the validation message, and the statement when include_sql is
\* true; with include_sql false its sql_query is null.
C7_InvalidCarriesSqlOnRequest ==
    (ReachedGeneration /\ FailsValidation(last.attempts[1]))
    => /\ ~last.response.success
       /\ last.response.error.text = "Generated SQL contains invalid column names: "
       /\ last.response.error.detail = last.attempts[1].issues
       /\ last.response.sql_query =
             IF last.include_sql THEN last.attempts[1].sql ELSE None

C7_InvalidWithoutSql ==
    /\ ReachedGeneration /\ FailsValidation(last.attempts[1])
    /\ ~last.include_sql /\ last.response.sql_query = None

\* C8: when the search of a query returns no result the response is success=false
\* and the provider is not called.
C8_EmptyRetrievalNoGeneration ==
    (OnLoadedStore /\ ~last.search_raised /\ last.search_empty)
    => /\ ~last.response.success
       /\ last.response.llm_calls = 0
       /\ last.response.error = Error("No relevant tables found for this query")

C8_EmptyRetrieval ==
    /\ OnLoadedStore /\ ~last.search_raised /\ last.search_empty
    /\ Generated(last.attempts[1]) /\ ~last.response.success

\* C25: whenever the store has metadata or business logic loaded, a process_query
\* that calls the provider has searched the store first.
C25_RetrievalBeforeGeneration ==
    (/\ last.op = "process_query"
     /\ last.store_available
     /\ last.metadata_loaded \/ last.business_logic_loaded
     /\ last.response.llm_calls > 0)
    => last.response.path = "retrieval"

\* C25 as the code has it: whenever the store has metadata loaded, a process_query
\* that calls the provider has searched the store first, and the search returned
\* results.
C25_MetadataRetrievalBeforeGeneration ==
    (/\ last.op = "process_query"
     /\ last.store_available
     /\ last.metadata_loaded
     /\ last.response.llm_calls > 0)
    => /\ last.response.path = "retrieval"
       /\ ~last.search_raised
       /\ ~last.search_empty

\* the provider was called on what the search of a loaded store returned
C25_GeneratedFromResults ==
    /\ last.op = "process_query"
    /\ last.store_available
    /\ last.metadata_loaded
    /\ last.business_logic_loaded
    /\ last.response.path = "retrieval"
    /\ last.response.llm_calls = 1
    /\ ~last.search_empty

\* ------------------------------------- claims on the ingests behind the queries

\* C29: after every successful process_metadata, get_table_details returns an
\* entry for exactly the tables of that ingest: the keys of table_metadata are
\* the names in table_names.
C29_RegistryIsLatestIngest ==
    (last.op = "process_metadata" /\ last.success)
    => \A t \in TableNames :
          GetTableDetails(store, t) # None <=> t \in Range(store.table_names)

\* C30: an ingest that returns success=false leaves every field of the store as
\* it was before the call.
C30_FailedIngestChangesNothing ==
    [][(/\ last'.op \in {"process_metadata", "process_business_logic_file"}
        /\ ~last'.success)
       => store' = store]_vars

====
